---- MODULE Spec2Model ----
(***************************************************************************)
(* seqpat: line-oriented pattern matching.  Pattern trees (T, R, Sequence, *)
(* Choice, Repeat) with their parse methods, and the two driving functions *)
(* gsub and split_by.  Rows are 0-based as in the source; line row of seq  *)
(* is seq[row + 1].                                                        *)
(***************************************************************************)
EXTENDS Integers, Sequences, FiniteSets, TLC

VARIABLES pattern, built, nbuilt, seq, called, args, parsed, gsubbed, splitted

vars == <<pattern, built, nbuilt, seq, called, args, parsed, gsubbed, splitted>>

\* ---------------------------------------------------------------- bounds
MaxLen == 3
MaxBuild == 1

\* ------------------------------------------------------- values and options
\* Python's None / a present value, for Optional[...] fields.
None == <<>>
Some(x) == <<x>>
IsNone(o) == Len(o) = 0
Get(o) == o[1]

Lines == {"a", ";"}

RECURSIVE SeqsUpTo(_)
SeqsUpTo(n) ==
  IF n = 0 THEN {<<>>}
  ELSE LET S == SeqsUpTo(n - 1)
       IN S \cup {Append(s, l) : s \in {t \in S : Len(t) = n - 1}, l \in Lines}

RECURSIVE Reverse(_)
Reverse(s) == IF s = <<>> THEN <<>> ELSE Append(Reverse(Tail(s)), Head(s))

\* The callables handed to fmt / fmt_match / fmt_group, by name.
\* "rev": lambda *xs: list(reversed(xs));  "dup": lambda *xs: list(xs) * 2
CallFmt(name, items) ==
  CASE name = "rev" -> Reverse(items)
    [] name = "dup" -> items \o items
    [] OTHER -> items

\* A regular expression is modelled by the set of lines re.match accepts;
\* the match object carries the line and its group 0.
ReMatch(regex, text) ==
  IF text \in regex THEN Some([string |-> text, group0 |-> text]) ELSE None

\* "string": lambda m: [m.string]
CallFmtMatch(name, m) == <<m.string>>
\* "g0": lambda g: [g(0)]
CallFmtGroup(name, m) == <<m.group0>>

\* ------------------------------------------------------------ pattern nodes
\* One record shape for every node; kind "str" is a literal-string child of a
\* Sequence (isinstance(content, str)).
Blank ==
  [kind |-> "", text |-> "", regex |-> {}, repl |-> None, fmt |-> None,
   fmt_match |-> None, fmt_group |-> None, contents |-> <<>>,
   min_count |-> 0, max_count |-> None, sep |-> None]

Str(s) == [Blank EXCEPT !.kind = "str", !.text = s]

T_init(text, repl) == [Blank EXCEPT !.kind = "T", !.text = text, !.repl = repl]

R_init(regex, repl, fmt, fmt_match, fmt_group) ==
  [Blank EXCEPT !.kind = "R", !.regex = regex, !.repl = repl, !.fmt = fmt,
                !.fmt_match = fmt_match, !.fmt_group = fmt_group]

RECURSIVE FlattenKind(_, _)
FlattenKind(contents, kind) ==
  IF contents = <<>> THEN <<>>
  ELSE LET c == Head(contents)
       IN (IF c.kind = kind THEN c.contents ELSE <<c>>)
            \o FlattenKind(Tail(contents), kind)

\* Lines 94-96: repl and fmt are mutually exclusive.
Sequence_ok(repl, fmt) == IF IsNone(repl) THEN TRUE ELSE IsNone(fmt)

Sequence_init(contents, repl, fmt) ==
  [Blank EXCEPT !.kind = "Sequence",
                !.contents = FlattenKind(contents, "Sequence"),
                !.repl = repl, !.fmt = fmt]

Choice_init_reversed(contents) ==
  [Blank EXCEPT !.kind = "Choice",
                !.contents = Reverse(FlattenKind(contents, "Choice"))]

Choice_init(contents) ==
  [Blank EXCEPT !.kind = "Choice", !.contents = FlattenKind(contents, "Choice")]

\* count is [int, lo, hi]: an int k is [int |-> TRUE, lo |-> k, hi |-> None],
\* a tuple (lo, hi) is [int |-> FALSE, lo |-> lo, hi |-> None or Some(hi)].
Repeat_ok(content, count, repl, fmt) ==
  /\ content.kind # "Repeat"
  /\ IF count.int THEN count.lo > 0
     ELSE /\ count.lo >= 0
          /\ (IF IsNone(count.hi) THEN TRUE ELSE Get(count.hi) >= count.lo)
          /\ (IF IsNone(count.hi) THEN TRUE
              ELSE ~(count.lo = 0 /\ Get(count.hi) = 0))
  /\ (IF IsNone(repl) THEN TRUE ELSE IsNone(fmt))

Repeat_init(content, count, repl, fmt, sep) ==
  [Blank EXCEPT !.kind = "Repeat", !.contents = <<content>>,
                !.min_count = count.lo,
                !.max_count = IF count.int THEN Some(count.lo) ELSE count.hi,
                !.repl = repl, !.fmt = fmt, !.sep = sep]

\* ------------------------------------------------------------------- parse
\* A parse result: "ok" (out, next), "none" (Python None), "assert" (an
\* assertion of the source failed and the AssertionError propagates), or
\* "looping" (a while loop is still going after more iterations than any run
\* that ends can make: the call does not return).
Ok(out, next) == [st |-> "ok", out |-> out, next |-> next]
NoMatch == [st |-> "none", out |-> <<>>, next |-> 0]
AssertFail == [st |-> "assert", out |-> <<>>, next |-> 0]
Looping == [st |-> "looping", out |-> <<>>, next |-> 0]

T_parse_backwards(self, s, row) ==
  IF row >= Len(s) THEN NoMatch
  ELSE LET text == s[row + 1]
       IN IF text # self.text THEN NoMatch
          ELSE IF ~IsNone(self.repl) THEN Ok(Get(self.repl), row - 1)
          ELSE Ok(<<text>>, row - 1)

T_parse(self, s, row) ==
  IF row >= Len(s) THEN NoMatch
  ELSE LET text == s[row + 1]
       IN IF text # self.text THEN NoMatch
          ELSE IF ~IsNone(self.repl) THEN Ok(Get(self.repl), row + 1)
          ELSE Ok(<<text>>, row + 1)

R_parse(self, s, row) ==
  IF row >= Len(s) THEN NoMatch
  ELSE LET text == s[row + 1]
           m == ReMatch(self.regex, text)
       IN IF IsNone(m) THEN NoMatch
          ELSE IF ~IsNone(self.repl) THEN Ok(Get(self.repl), row + 1)
          ELSE IF ~IsNone(self.fmt) THEN Ok(CallFmt(Get(self.fmt), <<text>>), row + 1)
          ELSE IF ~IsNone(self.fmt_match)
            THEN Ok(CallFmtMatch(Get(self.fmt_match), Get(m)), row + 1)
          ELSE IF ~IsNone(self.fmt_group)
            THEN Ok(CallFmtGroup(Get(self.fmt_group), Get(m)), row + 1)
          ELSE Ok(<<text>>, row + 1)

\* Lines 135-142: the Sequence's own rewrite rule.
Sequence_finish(self, result, row) ==
  IF ~IsNone(self.repl) THEN Ok(Get(self.repl), row)
  ELSE IF ~IsNone(self.fmt) THEN Ok(CallFmt(Get(self.fmt), result), row)
  ELSE Ok(result, row)

Sequence_literal_skipped(result, content) == result

\* Lines 122-124: a str content goes into the result as it is.
Sequence_literal(result, content) == Append(result, content.text)

\* Line 131: assert next_row >= row.
Sequence_assert(next_row, row) == next_row >= row

Repeat_sep_leading(self, count) == ~IsNone(self.sep) /\ count >= 0
Repeat_sep_late(self, count) == ~IsNone(self.sep) /\ count >= 2

\* Line 247: a separator goes in before every repetition but the first.
Repeat_sep(self, count) == ~IsNone(self.sep) /\ count >= 1

Repeat_more_inclusive(self, count) ==
  IF IsNone(self.max_count) THEN TRUE ELSE count <= Get(self.max_count)

\* Line 241: the loop condition.
Repeat_more(self, count) ==
  IF IsNone(self.max_count) THEN TRUE ELSE count < Get(self.max_count)

Repeat_stop_never(self, consume_some, count) == FALSE

\* Line 258: stop once a repetition consumed nothing and min_count is met.
Repeat_stop(self, consume_some, count) == ~consume_some /\ count >= self.min_count

\* The while loop of Repeat.parse makes at most len(seq) repetitions that
\* consume a line, min_count zero-width ones below the floor, and one more.
Repeat_limit(self, s) == Len(s) + self.min_count + 1

\* Lines 261-270: the min_count test and the Repeat's own rewrite rule.
Repeat_finish(self, count, result, row) ==
  IF count < self.min_count THEN NoMatch
  ELSE IF ~IsNone(self.repl) THEN Ok(Get(self.repl), row)
  ELSE IF ~IsNone(self.fmt) THEN Ok(CallFmt(Get(self.fmt), result), row)
  ELSE Ok(result, row)

RECURSIVE parse(_, _, _)
RECURSIVE Sequence_loop(_, _, _, _, _)
RECURSIVE Choice_loop(_, _, _, _)
RECURSIVE Repeat_loop(_, _, _, _, _)

\* for content in self.contents, from the i-th on.
Sequence_loop(self, s, i, row, result) ==
  IF i > Len(self.contents) THEN Sequence_finish(self, result, row)
  ELSE LET content == self.contents[i]
       IN IF content.kind = "str"
            THEN Sequence_loop(self, s, i + 1, row, Sequence_literal(result, content))
          ELSE LET r == parse(content, s, row)
               IN IF r.st # "ok" THEN r
                  ELSE IF ~Sequence_assert(r.next, row) THEN AssertFail
                  ELSE Sequence_loop(self, s, i + 1, r.next, result \o r.out)

Choice_loop(self, s, i, row) ==
  IF i > Len(self.contents) THEN NoMatch
  ELSE LET r == parse(self.contents[i], s, row)
       IN IF r.st # "none" THEN r ELSE Choice_loop(self, s, i + 1, row)

\* The while loop of Repeat.parse; returns the loop's final
\* [st, count, result, row], st "assert" when the child raised, "looping"
\* when the loop (or the child) goes on past every run that ends.
Repeat_loop(self, s, row, count, result) ==
  IF ~Repeat_more(self, count)
    THEN [st |-> "ok", count |-> count, result |-> result, row |-> row]
  ELSE IF count > Repeat_limit(self, s)
    THEN [st |-> "looping", count |-> count, result |-> result, row |-> row]
  ELSE LET r == parse(self.contents[1], s, row)
       IN IF r.st \in {"assert", "looping"}
            THEN [st |-> r.st, count |-> count, result |-> result, row |-> row]
          ELSE IF r.st = "none"
            THEN [st |-> "ok", count |-> count, result |-> result, row |-> row]
          ELSE LET result1 == IF Repeat_sep(self, count)
                                THEN Append(result, Get(self.sep)) ELSE result
                   consume_some == r.next > row
                   result2 == result1 \o r.out
               IN IF Repeat_stop(self, consume_some, count + 1)
                    THEN [st |-> "ok", count |-> count + 1,
                          result |-> result2, row |-> r.next]
                  ELSE Repeat_loop(self, s, r.next, count + 1, result2)

Repeat_parse(self, s, row) ==
  LET l == Repeat_loop(self, s, row, 0, <<>>)
  IN IF l.st = "assert" THEN AssertFail
     ELSE IF l.st = "looping" THEN Looping
     ELSE Repeat_finish(self, l.count, l.result, l.row)

parse(self, s, row) ==
  CASE self.kind = "T" -> T_parse(self, s, row)
    [] self.kind = "R" -> R_parse(self, s, row)
    [] self.kind = "Sequence" -> Sequence_loop(self, s, 1, row, <<>>)
    [] self.kind = "Choice" -> Choice_loop(self, s, 1, row)
    [] self.kind = "Repeat" -> Repeat_parse(self, s, row)

\* ------------------------------------------------------------------- gsub
\* Python's seq[lo:hi] (0-based, hi exclusive, clamped to the list).
Slice(s, lo, hi) == SubSeq(s, lo + 1, IF hi > Len(s) THEN Len(s) ELSE hi)

\* A driver's outcome: "ok" with the returned list in ret, "error" for the
\* RuntimeError (err_row is the row its message names, nothing is returned),
\* "assert" for an AssertionError, "looping" for a call that does not
\* return.  scan lists, in call order, the rows at
\* which gsub called pattern.parse (for split_by: the rows at which the search
\* for the delimiter stopped).
Returned(v, scan) == [st |-> "ok", ret |-> Some(v), err_row |-> None, scan |-> scan]
Raised(row, scan) == [st |-> "error", ret |-> None, err_row |-> Some(row), scan |-> scan]
Asserted(scan) == [st |-> "assert", ret |-> None, err_row |-> None, scan |-> scan]
NoReturn(scan) == [st |-> "looping", ret |-> None, err_row |-> None, scan |-> scan]

\* Line 29.
Gsub_assert(drop, strict) == ~(drop /\ strict)

Gsub_raises_never(strict) == FALSE

\* Lines 35-36: strict turns an unmatched row into the RuntimeError.
Gsub_raises(strict) == strict

\* Lines 37-38: the unmatched line is copied unless drop.
Gsub_unmatched(s, row, drop, replaced_seq) ==
  IF ~drop THEN replaced_seq \o Slice(s, row, row + 1) ELSE replaced_seq

Gsub_advance_by_one(next_row, row) == row + 1
Gsub_advance_to_end(next_row, row) == next_row

\* Lines 46-49: where the scan goes on after a match.
Gsub_advance(next_row, row) == IF next_row = row THEN row + 1 ELSE next_row

\* The while loop of gsub, each iteration at a row of its own below
\* len(seq), ends within len(seq) iterations.
Gsub_limit(s) == Len(s)

RECURSIVE Gsub_loop(_, _, _, _, _, _, _)
Gsub_loop(pat, s, drop, strict, row, replaced_seq, scan) ==
  IF ~(row < Len(s)) THEN Returned(replaced_seq, scan)
  ELSE IF Len(scan) >= Gsub_limit(s) THEN NoReturn(scan)
  ELSE LET r == parse(pat, s, row)
           scan1 == Append(scan, row)
       IN IF r.st = "assert" THEN Asserted(scan1)
          ELSE IF r.st = "looping" THEN NoReturn(scan1)
          ELSE IF r.st = "none"
            THEN IF Gsub_raises(strict) THEN Raised(row, scan1)
                 ELSE Gsub_loop(pat, s, drop, strict, row + 1,
                                Gsub_unmatched(s, row, drop, replaced_seq), scan1)
          ELSE IF ~(r.next >= row) THEN Asserted(scan1)
          ELSE Gsub_loop(pat, s, drop, strict, Gsub_advance(r.next, row),
                         replaced_seq \o r.out, scan1)

gsub(pat, s, drop, strict) ==
  IF ~Gsub_assert(drop, strict) THEN Asserted(<<>>)
  ELSE Gsub_loop(pat, s, drop, strict, 0, <<>>, <<>>)

\* ---------------------------------------------------------------- split_by
\* Lines 77-80: for row_delimiter_found in range(row, len(seq)), the first row
\* whose parse is not None (or raises); found = FALSE is the for's else branch.
RECURSIVE Split_find(_, _, _)
Split_find(delim, s, at) ==
  IF at >= Len(s) THEN [found |-> FALSE, at |-> at, r |-> NoMatch]
  ELSE LET r == parse(delim, s, at)
       IN IF r.st # "none" THEN [found |-> TRUE, at |-> at, r |-> r]
          ELSE Split_find(delim, s, at + 1)

Split_empty_ignored(next_row, row_delimiter_found) == next_row < row_delimiter_found

\* Line 87: the delimiter matched an empty span.
Split_empty(next_row, row_delimiter_found) == next_row = row_delimiter_found

Split_append_swapped(splitted0, s, row, row_delimiter_found, result, keep_delimiters) ==
  IF keep_delimiters
    THEN Append(Append(splitted0, result), Slice(s, row, row_delimiter_found))
  ELSE Append(splitted0, Slice(s, row, row_delimiter_found))

\* Lines 93-97: the segment before the delimiter, then the delimiter's result
\* when keep_delimiters.
Split_append(splitted0, s, row, row_delimiter_found, result, keep_delimiters) ==
  LET a == Append(splitted0, Slice(s, row, row_delimiter_found))
  IN IF keep_delimiters THEN Append(a, result) ELSE a

\* Lines 82-84: no more delimiters, the rest of the input is the last segment.
Split_rest(splitted0, s, row) == Append(splitted0, Slice(s, row, Len(s)))

Split_tail_dropped(splitted0) == splitted0

\* Lines 102-104: the closing empty segment.
Split_tail(splitted0) == Append(splitted0, <<>>)

RECURSIVE Split_loop(_, _, _, _, _, _)
Split_loop(delim, s, keep_delimiters, row, splitted0, scan) ==
  IF ~(row < Len(s)) THEN Returned(Split_tail(splitted0), scan)
  ELSE LET f == Split_find(delim, s, row)
       IN IF ~f.found THEN Returned(Split_rest(splitted0, s, row), scan)
          ELSE IF f.r.st = "assert" THEN Asserted(Append(scan, f.at))
          ELSE IF f.r.st = "looping" THEN NoReturn(Append(scan, f.at))
          ELSE IF Split_empty(f.r.next, f.at) THEN Raised(f.at, Append(scan, f.at))
          ELSE IF ~(f.r.next > f.at /\ f.at >= row) THEN Asserted(Append(scan, f.at))
          ELSE Split_loop(delim, s, keep_delimiters, f.r.next,
                          Split_append(splitted0, s, row, f.at, f.r.out, keep_delimiters),
                          Append(scan, f.at))

split_by(delim, s, keep_delimiters) == Split_loop(delim, s, keep_delimiters, 0, <<>>, <<>>)

\* ----------------------------------------------------------- the callers
\* A caller holds one pattern and one line list.  It may build a larger
\* pattern from the one it holds (the constructors and the operators +, |, *)
\* and it calls parse, gsub or split_by on what it holds; the result variables
\* keep the outcome of that call until the caller builds again.  `built` keeps
\* the arguments of the constructor call that made `pattern`.
Exactly(k) == [int |-> TRUE, lo |-> k, hi |-> None]
Range(lo, hi) == [int |-> FALSE, lo |-> lo, hi |-> hi]

Semi == T_init(";", None)

BasePatterns ==
  { Semi,
    T_init("a", None),
    T_init("a", Some(<<"X">>)),
    T_init("a", Some(<<>>)),
    R_init({"a", ";"}, None, None, None, None),
    R_init({"a"}, None, Some("dup"), None, None),
    R_init({";"}, None, None, Some("string"), None),
    R_init({"a"}, None, None, None, Some("g0")),
    R_init({";"}, Some(<<"Y">>), None, None, None),
    Sequence_init(<<T_init("a", None)>>, Some(<<"X">>), None),
    Sequence_init(<<Str("s")>>, None, None),
    Choice_init(<<T_init("a", None), Sequence_init(<<Str("s")>>, None, None)>>),
    Choice_init(<<T_init("a", None), R_init({"a", ";"}, Some(<<"Y", "Y">>), None, None, None)>>) }

AddOthers == {Semi}
OrOthers == {Semi, Sequence_init(<<Str("s")>>, None, None)}
MulCounts == {Exactly(2), Range(0, None)}
SequenceArgs(p) ==
  { [contents |-> <<Str("s"), p>>, repl |-> None, fmt |-> None],
    [contents |-> <<p, Semi>>, repl |-> Some(<<"X">>), fmt |-> None],
    [contents |-> <<p, Str("s")>>, repl |-> None, fmt |-> Some("rev")] }
RepeatArgs ==
  { [count |-> Range(0, None), repl |-> None, fmt |-> None],
    [count |-> Range(1, Some(2)), repl |-> None, fmt |-> None],
    [count |-> Range(2, None), repl |-> None, fmt |-> None],
    [count |-> Range(1, Some(2)), repl |-> Some(<<"X">>), fmt |-> None] }

NoCount == Range(0, None)
NotBuilt ==
  [kind |-> "", contents |-> <<>>, repl |-> None, fmt |-> None,
   count |-> NoCount, sep |-> None]
NoArgs == [row |-> 0, drop |-> FALSE, strict |-> FALSE, keep_delimiters |-> FALSE]
NotParsed == [st |-> "", out |-> <<>>, next |-> 0]
NotRun == [st |-> "", ret |-> None, err_row |-> None, scan |-> <<>>]

Init ==
  /\ pattern \in BasePatterns
  /\ built = NotBuilt
  /\ nbuilt = 0
  /\ seq \in SeqsUpTo(MaxLen)
  /\ called = "none"
  /\ args = NoArgs
  /\ parsed = NotParsed
  /\ gsubbed = NotRun
  /\ splitted = NotRun

Fresh(p, b) ==
  /\ nbuilt < MaxBuild
  /\ pattern' = p
  /\ built' = b
  /\ nbuilt' = nbuilt + 1
  /\ called' = "none"
  /\ args' = NoArgs
  /\ parsed' = NotParsed
  /\ gsubbed' = NotRun
  /\ splitted' = NotRun
  /\ UNCHANGED seq

\* Pattern.__add__: Sequence(self, other)
Add(other) ==
  Fresh(Sequence_init(<<pattern, other>>, None, None),
        [NotBuilt EXCEPT !.kind = "Sequence", !.contents = <<pattern, other>>])

\* Pattern.__or__: Choice(self, other)
Or(other) ==
  Fresh(Choice_init(<<pattern, other>>),
        [NotBuilt EXCEPT !.kind = "Choice", !.contents = <<pattern, other>>])

\* Pattern.__mul__: Repeat(self, count=count)
Mul(count) ==
  /\ Repeat_ok(pattern, count, None, None)
  /\ Fresh(Repeat_init(pattern, count, None, None, None),
           [NotBuilt EXCEPT !.kind = "Repeat", !.contents = <<pattern>>, !.count = count])

\* Sequence(*contents, repl=..., fmt=...)
NewSequence(contents, repl, fmt) ==
  /\ Sequence_ok(repl, fmt)
  /\ Fresh(Sequence_init(contents, repl, fmt),
           [NotBuilt EXCEPT !.kind = "Sequence", !.contents = contents,
                            !.repl = repl, !.fmt = fmt])

\* Choice(other, pattern)
NewChoice(contents) ==
  Fresh(Choice_init(contents),
        [NotBuilt EXCEPT !.kind = "Choice", !.contents = contents])

\* Repeat(pattern, count, repl=..., fmt=..., sep=...)
NewRepeat(count, repl, fmt, sep) ==
  /\ Repeat_ok(pattern, count, repl, fmt)
  /\ Fresh(Repeat_init(pattern, count, repl, fmt, sep),
           [NotBuilt EXCEPT !.kind = "Repeat", !.contents = <<pattern>>, !.repl = repl,
                            !.fmt = fmt, !.count = count, !.sep = sep])

CallParse(row) ==
  /\ called = "none"
  /\ called' = "parse"
  /\ args' = [NoArgs EXCEPT !.row = row]
  /\ parsed' = parse(pattern, seq, row)
  /\ gsubbed' = NotRun
  /\ splitted' = NotRun
  /\ UNCHANGED <<pattern, built, nbuilt, seq>>

CallGsub(drop, strict) ==
  /\ called = "none"
  /\ called' = "gsub"
  /\ args' = [NoArgs EXCEPT !.drop = drop, !.strict = strict]
  /\ gsubbed' = gsub(pattern, seq, drop, strict)
  /\ parsed' = NotParsed
  /\ splitted' = NotRun
  /\ UNCHANGED <<pattern, built, nbuilt, seq>>

CallSplitBy(keep_delimiters) ==
  /\ called = "none"
  /\ called' = "split_by"
  /\ args' = [NoArgs EXCEPT !.keep_delimiters = keep_delimiters]
  /\ splitted' = split_by(pattern, seq, keep_delimiters)
  /\ parsed' = NotParsed
  /\ gsubbed' = NotRun
  /\ UNCHANGED <<pattern, built, nbuilt, seq>>

Next ==
  \/ \E other \in AddOthers : Add(other)
  \/ \E other \in OrOthers : Or(other)
  \/ \E count \in MulCounts : Mul(count)
  \/ \E a \in SequenceArgs(pattern) : NewSequence(a.contents, a.repl, a.fmt)
  \/ NewChoice(<<Semi, pattern>>)
  \/ \E a \in RepeatArgs : NewRepeat(a.count, a.repl, a.fmt, Some(","))
  \/ \E row \in 0..(Len(seq) + 1) : CallParse(row)
  \/ \E drop \in BOOLEAN, strict \in BOOLEAN : CallGsub(drop, strict)
  \/ \E keep_delimiters \in BOOLEAN : CallSplitBy(keep_delimiters)

Spec == Init /\ [][Next]_vars

\* ================================================================ split_by
\* The delimiter matches found by scanning left to right from row `from`:
\* each match is searched from where the previous one ended.
RECURSIVE FirstMatchAt(_, _, _)
FirstMatchAt(p, s, at) ==
  IF at >= Len(s) THEN None
  ELSE IF parse(p, s, at).st = "ok" THEN Some(at)
  ELSE FirstMatchAt(p, s, at + 1)

RECURSIVE DelimiterMatches(_, _, _)
DelimiterMatches(p, s, from) ==
  LET q == FirstMatchAt(p, s, from)
  IN IF IsNone(q) THEN <<>>
     ELSE LET r == parse(p, s, Get(q))
          IN <<[at |-> Get(q), next |-> r.next, out |-> r.out]>>
               \o (IF r.next > Get(q) THEN DelimiterMatches(p, s, r.next) ELSE <<>>)

\* The delimiter consumes at least one line wherever it matches in s.
ConsumesWhenMatching(p, s) ==
  \A r \in 0..Len(s) : LET x == parse(p, s, r) IN x.st = "ok" => x.next > r

\* The lines between the (i-1)-th and the i-th delimiter match (the rest of
\* the input after the last one for i = Len(ms) + 1).
SegmentBetween(s, ms, i) ==
  Slice(s, IF i = 1 THEN 0 ELSE ms[i - 1].next,
           IF i > Len(ms) THEN Len(s) ELSE ms[i].at)

\* C1: split_by without keep_delimiters, with a delimiter that consumes at
\* least one line whenever it matches, returns d + 1 segments for the d
\* delimiter matches of the left-to-right scan; segment i holds the lines
\* between match i-1 and match i, so the segments before a delimiter at row 0,
\* after a delimiter ending the input and between adjacent delimiters are
\* present as empty lists.
C1_SegmentCount ==
  (called = "split_by" /\ ~args.keep_delimiters /\ ConsumesWhenMatching(pattern, seq))
    => LET ms == DelimiterMatches(pattern, seq, 0)
       IN /\ splitted.st = "ok"
          /\ Len(Get(splitted.ret)) = Len(ms) + 1
          /\ \A i \in 1..(Len(ms) + 1) : Get(splitted.ret)[i] = SegmentBetween(seq, ms, i)

\* Three delimiters and nothing else: four empty segments.
C1_Witness ==
  /\ called = "split_by" /\ ~args.keep_delimiters
  /\ ConsumesWhenMatching(pattern, seq)
  /\ Len(DelimiterMatches(pattern, seq, 0)) = 3
  /\ splitted.st = "ok"
  /\ Get(splitted.ret) = <<<<>>, <<>>, <<>>, <<>>>>

\* C5: with a delimiter that never matches zero-width, keep_delimiters = true
\* gives 2d + 1 entries: the odd (1-based) entries are the segments of the
\* call without keep_delimiters, and entry 2i is what the i-th delimiter match
\* emitted; the first and the last entry are segments.
C5_KeepInterleaves ==
  (called = "split_by" /\ args.keep_delimiters /\ ConsumesWhenMatching(pattern, seq))
    => LET ms == DelimiterMatches(pattern, seq, 0)
           d == Len(ms)
           plain == split_by(pattern, seq, FALSE)
       IN /\ splitted.st = "ok" /\ plain.st = "ok"
          /\ Len(Get(plain.ret)) = d + 1
          /\ Len(Get(splitted.ret)) = 2 * d + 1
          /\ \A i \in 1..(d + 1) : Get(splitted.ret)[2 * i - 1] = Get(plain.ret)[i]
          /\ \A i \in 1..d : Get(splitted.ret)[2 * i] = ms[i].out

\* Two delimiter matches with rewritten output, kept between the segments.
C5_Witness ==
  /\ called = "split_by" /\ args.keep_delimiters
  /\ ConsumesWhenMatching(pattern, seq)
  /\ Len(DelimiterMatches(pattern, seq, 0)) = 2
  /\ splitted.st = "ok"
  /\ Len(Get(splitted.ret)) = 5
  /\ Get(splitted.ret)[2] # <<seq[DelimiterMatches(pattern, seq, 0)[1].at + 1]>>
  /\ Get(splitted.ret)[3] # <<>>

\* The row at which the scan of split_by first comes upon a zero-width
\* delimiter success, when it does: from each segment start the first row up
\* to `last` where the delimiter's parse succeeds is looked up; a success that
\* consumed lines moves the segment start to its end.
RECURSIVE FirstSuccessUpTo(_, _, _, _)
FirstSuccessUpTo(p, s, at, last) ==
  IF at > last THEN None
  ELSE IF parse(p, s, at).st = "ok" THEN Some(at)
  ELSE FirstSuccessUpTo(p, s, at + 1, last)

RECURSIVE ZeroWidthRow(_, _, _, _)
ZeroWidthRow(p, s, start, last) ==
  LET q == FirstSuccessUpTo(p, s, start, last)
  IN IF IsNone(q) THEN None
     ELSE IF parse(p, s, Get(q)).next = Get(q) THEN q
     ELSE ZeroWidthRow(p, s, parse(p, s, Get(q)).next, last)

RaisesAt(res, q) == res.st = "error" /\ res.err_row = q /\ IsNone(res.ret)

\* C4 as stated: whenever the first position at or after the current segment
\* start where the delimiter's parse succeeds is a zero-width success,
\* split_by raises an error naming it and returns nothing.  Positions run up
\* to len(seq), where a parse may still succeed with zero width.
C4_AsStated ==
  called = "split_by"
    => LET z == ZeroWidthRow(pattern, seq, 0, Len(seq))
       IN ~IsNone(z) => RaisesAt(splitted, z)

\* C4 amended: the same for the rows split_by searches, those below len(seq):
\* when the first row from the segment start at which the delimiter succeeds
\* is a zero-width success, split_by raises, names that row and returns no
\* segments, whatever was collected before.
C4_ZeroWidthRaises ==
  called = "split_by"
    => LET z == ZeroWidthRow(pattern, seq, 0, Len(seq) - 1)
       IN ~IsNone(z) => RaisesAt(splitted, z)

\* A delimiter was matched and its segment collected before the zero-width
\* success further on.
C4_Witness ==
  /\ called = "split_by"
  /\ splitted.st = "error"
  /\ Len(splitted.scan) >= 2
  /\ Get(splitted.err_row) >= 2
  /\ IsNone(splitted.ret)

\* ==================================================================== gsub
\* The left-to-right non-overlapping scan, from scan position pos: what the
\* output receives, and the scan positions visited.
NextScan(r, pos) == IF r.st = "ok" /\ r.next > pos THEN r.next ELSE pos + 1

RECURSIVE ScanOutput(_, _, _)
ScanOutput(p, s, pos) ==
  IF pos >= Len(s) THEN <<>>
  ELSE LET r == parse(p, s, pos)
       IN (IF r.st = "ok" THEN r.out ELSE <<s[pos + 1]>>)
            \o ScanOutput(p, s, NextScan(r, pos))

RECURSIVE ScanPositions(_, _, _)
ScanPositions(p, s, pos) ==
  IF pos >= Len(s) THEN <<>>
  ELSE <<pos>> \o ScanPositions(p, s, NextScan(parse(p, s, pos), pos))

\* No position of `scan` lies inside the span of a match made at an earlier
\* position of it.
NoneInsideASpan(p, s, scan) ==
  \A i, j \in 1..Len(scan) :
    i < j => LET r == parse(p, s, scan[i])
             IN /\ scan[i] < scan[j]
                /\ r.st = "ok" => ~(scan[j] < r.next)

RECURSIVE FirstUnmatched(_, _, _)
FirstUnmatched(p, s, pos) ==
  IF pos >= Len(s) THEN None
  ELSE LET r == parse(p, s, pos)
       IN IF r.st # "ok" THEN Some(pos) ELSE FirstUnmatched(p, s, NextScan(r, pos))

\* C3: gsub with strict = true raises the unmatched-line error naming p
\* exactly when p is the first scan position where parse fails, and then
\* returns no list; it returns (the scan's output) exactly when the pattern
\* matched at every scan position.
C3_Outcome ==
  (called = "gsub" /\ args.strict /\ ~args.drop)
    => LET f == FirstUnmatched(pattern, seq, 0)
       IN /\ gsubbed.st \in {"ok", "error"}
          /\ gsubbed.st = "error" <=> ~IsNone(f)
          /\ gsubbed.st = "error" => RaisesAt(gsubbed, f)
          /\ gsubbed.st = "ok" => gsubbed.ret = Some(ScanOutput(pattern, seq, 0))

\* C3, all of it: the outcome above, and the call leaves the input list as
\* it was.
C3_StrictRaisesAtFirstUnmatched ==
  /\ []C3_Outcome
  /\ [][called' = "gsub" => seq' = seq]_vars

\* The error came after earlier rows had matched and emitted items.
C3_Witness ==
  /\ called = "gsub" /\ args.strict /\ ~args.drop
  /\ gsubbed.st = "error"
  /\ Get(gsubbed.err_row) = 2
  /\ parse(pattern, seq, 0).st = "ok" /\ parse(pattern, seq, 0).out # <<>>
  /\ IsNone(gsubbed.ret)

\* =================================================================== parse
\* C6: for every tree of T, R, Sequence, Choice and Repeat nodes, every line
\* list and every start row, a successful parse ends at or after the row it
\* started from, and no position assertion of Sequence.parse, gsub or
\* split_by fails.
C6_Monotone ==
  /\ called = "parse"
       => /\ parsed.st \in {"ok", "none"}
          /\ parsed.st = "ok" => parsed.next >= args.row
  /\ (called = "gsub" /\ Gsub_assert(args.drop, args.strict)) => gsubbed.st # "assert"
  /\ called = "split_by" => splitted.st # "assert"

\* A Sequence matched two lines or more from a row past the first.
C6_Witness ==
  /\ called = "parse"
  /\ pattern.kind = "Sequence"
  /\ args.row >= 1
  /\ parsed.st = "ok"
  /\ parsed.next >= args.row + 2

\* The successive child matches from row pos on, each starting where the one
\* before ended, up to the first failure (or zero-width success).
RECURSIVE Consecutive(_, _, _)
Consecutive(child, s, pos) ==
  LET r == parse(child, s, pos)
  IN IF r.st = "ok" /\ r.next > pos THEN <<r>> \o Consecutive(child, s, r.next)
     ELSE <<>>

Least(a, b) == IF a < b THEN a ELSE b

\* C7: for a child that consumes a line or more on every success and n
\* consecutive child matches from the start row, Repeat.parse fails exactly
\* when n < min; otherwise it makes min(n, max) repetitions (n without a max)
\* and ends right after the last of them.  An int count k gives the Repeat
\* that (k, k) gives.
C7_RepeatCount ==
  (called = "parse" /\ pattern.kind = "Repeat"
     /\ ConsumesWhenMatching(pattern.contents[1], seq))
    => LET child == pattern.contents[1]
           cs == Consecutive(child, seq, args.row)
           n == Len(cs)
           k == IF IsNone(pattern.max_count) THEN n ELSE Least(n, Get(pattern.max_count))
           l == Repeat_loop(pattern, seq, args.row, 0, <<>>)
       IN /\ parsed.st = "none" <=> n < pattern.min_count
          /\ n >= pattern.min_count
               => /\ parsed.st = "ok"
                  /\ l.count = k
                  /\ parsed.next = IF k = 0 THEN args.row ELSE cs[k].next
          /\ (built.kind = "Repeat" /\ built.count.int)
               => pattern = Repeat_init(child, Range(built.count.lo, Some(built.count.lo)),
                                        built.repl, built.fmt, built.sep)

\* Three consecutive child matches, a max of two: two repetitions.
C7_Witness ==
  /\ called = "parse"
  /\ pattern.kind = "Repeat"
  /\ ConsumesWhenMatching(pattern.contents[1], seq)
  /\ Len(Consecutive(pattern.contents[1], seq, args.row)) = 3
  /\ pattern.max_count = Some(2)
  /\ parsed.st = "ok"
  /\ parsed.next = args.row + 2

\* What k successive child parses from row pos emit, one list per repetition.
RECURSIVE Emissions(_, _, _, _)
Emissions(child, s, pos, k) ==
  IF k = 0 THEN <<>>
  ELSE LET r == parse(child, s, pos)
       IN <<r.out>> \o Emissions(child, s, r.next, k - 1)

RECURSIVE Join(_, _)
Join(es, sep) ==
  IF es = <<>> THEN <<>>
  ELSE IF Len(es) = 1 THEN es[1]
  ELSE es[1] \o <<sep>> \o Join(Tail(es), sep)

\* The items of a list that are the separator (no child emits it).
Separators(out, sep) == {i \in 1..Len(out) : out[i] = sep}

\* A Repeat with a separator and no rewrite rule of its own.
SeparatedRepeat(p) ==
  p.kind = "Repeat" /\ ~IsNone(p.sep) /\ IsNone(p.repl) /\ IsNone(p.fmt)

\* C8: a Repeat with a separator and no rewrite rule that succeeds with n
\* repetitions emitting e1..en emits e1 ++ [sep] ++ e2 ++ ... ++ [sep] ++ en:
\* n - 1 separators for n >= 1, none for n = 0, none for the failed attempt
\* that ends the loop.
C8_SeparatorJoin ==
  (called = "parse" /\ SeparatedRepeat(pattern) /\ parsed.st = "ok")
    => LET n == Repeat_loop(pattern, seq, args.row, 0, <<>>).count
           es == Emissions(pattern.contents[1], seq, args.row, n)
       IN /\ parsed.out = Join(es, Get(pattern.sep))
          /\ Cardinality(Separators(parsed.out, Get(pattern.sep)))
               = IF n = 0 THEN 0 ELSE n - 1

\* Three repetitions, two separators, and a fourth attempt that fails at the
\* end of the input.
C8_Witness ==
  /\ called = "parse" /\ SeparatedRepeat(pattern) /\ parsed.st = "ok"
  /\ Repeat_loop(pattern, seq, args.row, 0, <<>>).count = 3
  /\ parsed.out = <<"a", ",", "a", ",", "a">>

\* C9 as stated: for every child, the list a Repeat with a separator and no
\* rewrite rule emits neither begins nor ends with an inserted separator.
C9_AsStated ==
  (called = "parse" /\ SeparatedRepeat(pattern) /\ parsed.st = "ok" /\ parsed.out # <<>>)
    => /\ parsed.out[1] # Get(pattern.sep)
       /\ parsed.out[Len(parsed.out)] # Get(pattern.sep)

\* C9 amended: the emitted list begins with an inserted separator only if the
\* first repetition emitted nothing, and ends with one only if the last
\* repetition emitted nothing.
C9_NoOuterSeparator ==
  (called = "parse" /\ SeparatedRepeat(pattern) /\ parsed.st = "ok")
    => LET n == Repeat_loop(pattern, seq, args.row, 0, <<>>).count
           es == Emissions(pattern.contents[1], seq, args.row, n)
       IN n >= 1
            => /\ es[1] # <<>>
                    => parsed.out # <<>> /\ parsed.out[1] # Get(pattern.sep)
               /\ es[n] # <<>>
                    => parsed.out # <<>> /\ parsed.out[Len(parsed.out)] # Get(pattern.sep)

\* Two repetitions with rewritten, non-empty emissions around one separator.
C9_Witness ==
  /\ called = "parse" /\ SeparatedRepeat(pattern) /\ parsed.st = "ok"
  /\ Repeat_loop(pattern, seq, args.row, 0, <<>>).count = 2
  /\ parsed.out = <<"X", ",", "X">>

\* The Sequence node holding the constructor's arguments as they were given:
\* each child is parsed as a unit, a child Sequence with its own rewrite rule.
AsUnits(b) ==
  [Blank EXCEPT !.kind = "Sequence", !.contents = b.contents,
                !.repl = b.repl, !.fmt = b.fmt]

\* C10: a Sequence constructed from a child that is itself a Sequence parses
\* as the child Sequence taken as a unit (its own replace-with or format rule
\* applied to what it emits) followed by the other children.
C10_FlatteningKeepsParse ==
  (called = "parse" /\ built.kind = "Sequence"
     /\ \E i \in 1..Len(built.contents) : built.contents[i].kind = "Sequence")
    => parsed = parse(AsUnits(built), seq, args.row)

\* ================================================================ Sequence
\* The children taken one after another from row pos: a literal string puts
\* itself in front of what follows and uses no input, a matcher child must
\* succeed at pos and what follows starts where it ended.
RECURSIVE Chain(_, _, _)
Chain(contents, s, pos) ==
  IF contents = <<>> THEN Ok(<<>>, pos)
  ELSE LET c == Head(contents)
       IN IF c.kind = "str"
            THEN LET rest == Chain(Tail(contents), s, pos)
                 IN IF rest.st = "ok" THEN Ok(<<c.text>> \o rest.out, rest.next) ELSE NoMatch
          ELSE LET r == parse(c, s, pos)
               IN IF r.st # "ok" THEN NoMatch
                  ELSE LET rest == Chain(Tail(contents), s, r.next)
                       IN IF rest.st = "ok" THEN Ok(r.out \o rest.out, rest.next)
                          ELSE NoMatch

NoRewrite(p) == IsNone(p.repl) /\ IsNone(p.fmt)

\* C11: a Sequence without a rewrite rule succeeds exactly when its matcher
\* children succeed one after another, each from where the one before ended;
\* it then emits the children's emissions in order with each literal string at
\* its declared place and ends where the last matcher child ended.  When a
\* matcher child fails the result is no match, with nothing emitted.
C11_SequenceChains ==
  (called = "parse" /\ pattern.kind = "Sequence" /\ NoRewrite(pattern))
    => /\ parsed = Chain(pattern.contents, seq, args.row)
       /\ parsed.st = "none" => parsed.out = <<>>

\* A literal string was put before the lines of a matcher child that
\* consumed a line.
C11_Witness ==
  /\ called = "parse" /\ pattern.kind = "Sequence" /\ NoRewrite(pattern)
  /\ Len(pattern.contents) = 2
  /\ pattern.contents[1].kind = "str"
  /\ parsed.st = "ok"
  /\ parsed.out = <<"s", "a">>
  /\ parsed.next = args.row + 1

\* ================================================================== Choice
\* The children of a Choice that succeed at row.
Succeeding(contents, s, row) ==
  {i \in 1..Len(contents) : parse(contents[i], s, row).st = "ok"}

\* The Choice node holding the constructor's arguments as they were given: a
\* child Choice is tried as one alternative.
AsNested(b) == [Blank EXCEPT !.kind = "Choice", !.contents = b.contents]

\* C12: Choice.parse returns, as it is, the result of the first child in
\* declaration order that succeeds at the row, whatever later children would
\* do, and no match exactly when every child fails.  Flattening nested
\* Choices keeps the order: the constructed Choice parses as the nested one
\* given to the constructor, and is the Choice built from the alternatives
\* directly.
C12_FirstChoice ==
  (called = "parse" /\ pattern.kind = "Choice")
    => LET ok == Succeeding(pattern.contents, seq, args.row)
       IN /\ parsed.st = "none" <=> ok = {}
          /\ ok # {}
               => LET first == CHOOSE i \in ok : \A j \in ok : i <= j
                  IN parsed = parse(pattern.contents[first], seq, args.row)
          /\ built.kind = "Choice"
               => /\ parsed = parse(AsNested(built), seq, args.row)
                  /\ pattern = Choice_init(pattern.contents)

\* The first alternative succeeded without consuming anything; the second
\* would have consumed a line.
C12_Witness ==
  /\ called = "parse" /\ pattern.kind = "Choice" /\ built.kind = "Choice"
  /\ Len(pattern.contents) >= 2
  /\ parsed.st = "ok"
  /\ parsed = parse(pattern.contents[1], seq, args.row)
  /\ parsed.next = args.row
  /\ parse(pattern.contents[2], seq, args.row).st = "ok"
  /\ parse(pattern.contents[2], seq, args.row).next = args.row + 1

\* ============================================================= termination
\* The pattern succeeds without consuming a line at every row of s.
ZeroWidthEverywhere(p, s) ==
  \A r \in 0..Len(s) : LET m == parse(p, s, r) IN m.st = "ok" /\ m.next = r

\* C13: gsub called with flags it accepts returns or raises its
\* RuntimeError, it never runs on; the rows at which its loop calls parse
\* are rows of seq and strictly increase, so the loop makes at most len(seq)
\* iterations; with a pattern that succeeds with zero width at every row it
\* makes one iteration per line.
C13_GsubTerminates ==
  (called = "gsub" /\ Gsub_assert(args.drop, args.strict))
    => LET scan == gsubbed.scan
       IN /\ gsubbed.st \in {"ok", "error"}
          /\ Len(scan) <= Len(seq)
          /\ \A i \in 1..Len(scan) : scan[i] >= 0 /\ scan[i] < Len(seq)
          /\ \A i \in 1..(Len(scan) - 1) : scan[i] < scan[i + 1]
          /\ ZeroWidthEverywhere(pattern, seq)
               => /\ gsubbed.st = "ok"
                  /\ scan = [i \in 1..Len(seq) |-> i - 1]

\* A zero-width match at each of three lines: three iterations.
C13_Witness ==
  /\ called = "gsub" /\ Gsub_assert(args.drop, args.strict)
  /\ ZeroWidthEverywhere(pattern, seq)
  /\ Len(seq) = 3
  /\ gsubbed.st = "ok"
  /\ gsubbed.scan = <<0, 1, 2>>

\* The rows spanned by k successive child parses from row pos on.
RECURSIVE Spans(_, _, _, _)
Spans(child, s, pos, k) ==
  IF k = 0 THEN <<>>
  ELSE LET r == parse(child, s, pos)
       IN <<[from |-> pos, to |-> r.next]>> \o Spans(child, s, r.next, k - 1)

Greatest(a, b) == IF a > b THEN a ELSE b

\* C14: the loop of Repeat.parse ends for every child and every count, an
\* unbounded max included; a zero-width repetition that brings the count to
\* min or more is the last one; and for a child that succeeds with zero
\* width at every row the loop makes max(min, 1) repetitions and the parse
\* succeeds where it started.
C14_RepeatTerminates ==
  (called = "parse" /\ pattern.kind = "Repeat")
    => LET child == pattern.contents[1]
           l == Repeat_loop(pattern, seq, args.row, 0, <<>>)
           reps == Spans(child, seq, args.row, l.count)
       IN /\ l.st = "ok"
          /\ parsed.st \in {"ok", "none"}
          /\ \A i \in 1..l.count :
               (reps[i].to = reps[i].from /\ i >= pattern.min_count) => i = l.count
          /\ ZeroWidthEverywhere(child, seq)
               => /\ l.count = Greatest(pattern.min_count, 1)
                  /\ parsed.st = "ok"
                  /\ parsed.next = args.row

\* A zero-width child, a min of two and no max: two repetitions.
C14_Witness ==
  /\ called = "parse" /\ pattern.kind = "Repeat"
  /\ ZeroWidthEverywhere(pattern.contents[1], seq)
  /\ Len(seq) >= 1
  /\ pattern.min_count = 2 /\ IsNone(pattern.max_count)
  /\ Repeat_loop(pattern, seq, args.row, 0, <<>>).count = 2
  /\ parsed.st = "ok"
  /\ parsed.next = args.row

\* ============================================================ conservation
\* No rewrite rule, no separator and no literal-string child anywhere in the
\* pattern: a successful match emits the lines it consumed.
RECURSIVE Plain(_)
Plain(p) ==
  /\ p.kind # "str"
  /\ IsNone(p.repl) /\ IsNone(p.fmt) /\ IsNone(p.fmt_match) /\ IsNone(p.fmt_group)
  /\ IsNone(p.sep)
  /\ \A i \in 1..Len(p.contents) : Plain(p.contents[i])

\* C15: with drop = strict = false and a pattern that has no rewrite rule
\* and no literal-string Sequence child (nor a separator), gsub returns a list
\* equal to seq.
C15_GsubKeepsEveryLine ==
  (called = "gsub" /\ ~args.drop /\ ~args.strict /\ Plain(pattern))
    => /\ gsubbed.st = "ok"
       /\ Get(gsubbed.ret) = seq

====
